---- MODULE Spec2Model ----
(***************************************************************************)
(* Model of tokenizer_lambda.lambda_handler: an S3-triggered handler that  *)
(* reads a PII field list and a raw CSV, base64-encodes the listed fields  *)
(* row by row and stores the result under tokenized/.                      *)
(*                                                                         *)
(* Text is a sequence of code points (integers); an object key is text.    *)
(* A CSV object is abstracted to what csv.reader yields for it: the        *)
(* sniffed delimiter and the list of rows, each row a list of field texts. *)
(***************************************************************************)
EXTENDS Integers, Sequences, FiniteSets, TLC

VARIABLES objects, objects0, event_key, pc, raw_key, output_key,
          metadata_content, pii_fields, raw_csv, delimiter, fieldnames,
          line, output_stream, err, gets, puts, storeLog

vars == <<objects, objects0, event_key, pc, raw_key, output_key,
          metadata_content, pii_fields, raw_csv, delimiter, fieldnames,
          line, output_stream, err, gets, puts, storeLog>>

----------------------------------------------------------------------------
(* Text helpers *)

Slash == 47

\* "_pii_fields.json"
Suffix == <<95,112,105,105,95,102,105,101,108,100,115,46,106,115,111,110>>

\* "raw/"
RawPrefix == <<114,97,119,47>>

\* ".csv"
CsvExt == <<46,99,115,118>>

\* "tokenized/"
TokPrefix == <<116,111,107,101,110,105,122,101,100,47>>

\* "_tokenized.csv"
TokSuffix == <<95,116,111,107,101,110,105,122,101,100,46,99,115,118>>

StartsWith(s, t) == Len(s) >= Len(t) /\ SubSeq(s, 1, Len(t)) = t

EndsWith(s, t) == Len(s) >= Len(t) /\ SubSeq(s, Len(s) - Len(t) + 1, Len(s)) = t

\* os.path.basename: everything after the last '/'
Basename(key) ==
    LET slashes == {i \in 1..Len(key) : key[i] = Slash}
    IN  IF slashes = {} THEN key
        ELSE LET last == CHOOSE i \in slashes : \A j \in slashes : j <= i
             IN  SubSeq(key, last + 1, Len(key))

\* str.replace(old, ''): every non-overlapping occurrence, scanning left to right
RECURSIVE RemoveAll(_, _)
RemoveAll(s, old) ==
    IF s = <<>> THEN <<>>
    ELSE IF StartsWith(s, old) THEN RemoveAll(SubSeq(s, Len(old) + 1, Len(s)), old)
    ELSE <<s[1]>> \o RemoveAll(SubSeq(s, 2, Len(s)), old)

\* lines 17-19
FilenameBase(metadata_key) == RemoveAll(Basename(metadata_key), Suffix)

RawKey(metadata_key) == RawPrefix \o FilenameBase(metadata_key) \o CsvExt

OutputKey(metadata_key) == TokPrefix \o FilenameBase(metadata_key) \o TokSuffix

----------------------------------------------------------------------------
(* str.encode() (UTF-8) and base64.b64encode(...).decode() *)

Utf8Char(cp) ==
    IF cp < 128 THEN <<cp>>
    ELSE IF cp < 2048 THEN <<192 + (cp \div 64), 128 + (cp % 64)>>
    ELSE IF cp < 65536
         THEN <<224 + (cp \div 4096), 128 + ((cp \div 64) % 64), 128 + (cp % 64)>>
    ELSE <<240 + (cp \div 262144), 128 + ((cp \div 4096) % 64),
           128 + ((cp \div 64) % 64), 128 + (cp % 64)>>

RECURSIVE Utf8Encode(_)
Utf8Encode(s) ==
    IF s = <<>> THEN <<>> ELSE Utf8Char(s[1]) \o Utf8Encode(Tail(s))

\* the base64 alphabet A-Z a-z 0-9 + /, as code points
B64Char(i) ==
    IF i < 26 THEN 65 + i
    ELSE IF i < 52 THEN 97 + (i - 26)
    ELSE IF i < 62 THEN 48 + (i - 52)
    ELSE IF i = 62 THEN 43
    ELSE 47

\* '='
Pad == 61

RECURSIVE B64Encode(_)
B64Encode(b) ==
    IF b = <<>> THEN <<>>
    ELSE IF Len(b) = 1
         THEN <<B64Char(b[1] \div 4), B64Char((b[1] % 4) * 16), Pad, Pad>>
    ELSE IF Len(b) = 2
         THEN <<B64Char(b[1] \div 4),
                B64Char((b[1] % 4) * 16 + (b[2] \div 16)),
                B64Char((b[2] % 16) * 4), Pad>>
    ELSE <<B64Char(b[1] \div 4),
           B64Char((b[1] % 4) * 16 + (b[2] \div 16)),
           B64Char((b[2] % 16) * 4 + (b[3] \div 64)),
           B64Char(b[3] % 64)>> \o B64Encode(SubSeq(b, 4, Len(b)))

\* line 51: base64.b64encode(row[field].encode()).decode()
Tokenize(v) == B64Encode(Utf8Encode(v))

----------------------------------------------------------------------------
(* Stored objects *)

\* Python's None (csv.DictReader restval)
NoneVal == <<-1>>

\* eval(metadata_content), line 28.  The payload is abstracted to the shape of
\* its text: a literal list (elements are strings or integers), a bare string
\* literal, an integer literal, text that is not an expression, or nothing.
Eval(content) ==
    IF content.kind # "meta" THEN [ok |-> FALSE, iter |-> FALSE, items |-> <<>>]
    ELSE IF content.form = "list"
         THEN [ok |-> TRUE, iter |-> TRUE, items |-> content.items]
    ELSE IF content.form = "str"
         THEN [ok |-> TRUE, iter |-> TRUE,
               items |-> [i \in 1..Len(content.text) |->
                            [t |-> "str", v |-> <<content.text[i]>>]]]
    ELSE IF content.form = "int"
         THEN [ok |-> TRUE, iter |-> FALSE, items |-> <<>>]
    ELSE [ok |-> FALSE, iter |-> FALSE, items |-> <<>>]

\* csv.Sniffer().sniff(raw_csv.splitlines()[0]), line 37: raises on an empty
\* text (IndexError), an empty first line or a line with no usable delimiter
SniffRaises(content) ==
    \/ content.kind # "csv"
    \/ content.lines = <<>>
    \/ content.lines[1] = <<>>
    \/ content.delim = "?"

----------------------------------------------------------------------------
(* csv.DictReader / csv.DictWriter *)

\* DictReader.__next__: dict(zip(fieldnames, row)); missing trailing fields are
\* set to None; surplus fields are collected under the key None (here: rest)
DictRow(names, row) ==
    LET lf == Len(names)
        lr == Len(row)
        keys == {names[i] : i \in 1..lf}
        LastPos(n) == CHOOSE i \in 1..lf :
                        /\ names[i] = n /\ i <= lr
                        /\ \A j \in 1..lf : (names[j] = n /\ j <= lr) => j <= i
    IN  [d |-> [n \in keys |->
                  IF \E i \in (lr + 1)..lf : names[i] = n
                  THEN NoneVal ELSE row[LastPos(n)]],
         rest |-> IF lr > lf THEN SubSeq(row, lf + 1, lr) ELSE <<>>]

\* truth value of row[field]
Truthy(v) == v # NoneVal /\ v # <<>>

\* lines 50-51 for one field
MaskField(d, field) ==
    IF field.t = "str" /\ field.v \in DOMAIN d /\ Truthy(d[field.v])
    THEN [d EXCEPT ![field.v] = Tokenize(@)]
    ELSE d

\* lines 49-51: for field in pii_fields
RECURSIVE Mask(_, _)
Mask(d, items) ==
    IF items = <<>> THEN d ELSE Mask(MaskField(d, Head(items)), Tail(items))

\* DictWriter.writerow raises ValueError for a key that is not a fieldname
WriteRowRaises(r) == r.rest # <<>>

\* DictWriter._dict_to_list: one value per fieldname, None written as ''
RowOut(names, d) ==
    [i \in 1..Len(names) |-> IF d[names[i]] = NoneVal THEN <<>> ELSE d[names[i]]]

\* the reader loses the row that follows each row it yields
NextRowSkips(lines, k) ==
    LET cand == {j \in (k + 1)..Len(lines) : lines[j] # <<>> /\ (k > 1 => j > k + 1)}
    IN  IF cand = {} THEN 0 ELSE CHOOSE j \in cand : \A i \in cand : j <= i

\* DictReader skips rows that are []: index of the next non-blank row after
\* position k, or 0 when the reader is exhausted
NextRow(lines, k) ==
    LET cand == {j \in (k + 1)..Len(lines) : lines[j] # <<>>}
    IN  IF cand = {} THEN 0 ELSE CHOOSE j \in cand : \A i \in cand : j <= i

----------------------------------------------------------------------------
(* lambda_handler, one invocation per process *)

Procs == {1, 2}

NoContent == [kind |-> "none"]

NoFields == [ok |-> FALSE, iter |-> FALSE, items |-> <<>>]

\* the exception is swallowed and the handler goes on to the upload
FailStores(p, e) ==
    /\ pc' = [pc EXCEPT ![p] = IF pc[p] = "put" THEN "failed" ELSE "put"]
    /\ err' = [err EXCEPT ![p] = e]

\* an exception propagates out of lambda_handler: nothing after it runs
Fail(p, e) ==
    /\ pc' = [pc EXCEPT ![p] = "failed"]
    /\ err' = [err EXCEPT ![p] = e]

\* lines 13-20
Resolve(p) ==
    /\ pc[p] = "resolve"
    /\ raw_key' = [raw_key EXCEPT ![p] = RawKey(event_key[p])]
    /\ output_key' = [output_key EXCEPT ![p] = OutputKey(event_key[p])]
    /\ pc' = [pc EXCEPT ![p] = "get_metadata"]
    /\ UNCHANGED <<objects, objects0, event_key, metadata_content, pii_fields,
                   raw_csv, delimiter, fieldnames, line, output_stream, err,
                   gets, puts, storeLog>>

\* lines 26-27: s3.get_object raises when the key is missing or the call fails
GetMetadata(p) ==
    /\ pc[p] = "get_metadata"
    /\ gets' = [gets EXCEPT ![p] = @ + 1]
    /\ \E served \in BOOLEAN :
         IF served /\ event_key[p] \in DOMAIN objects
         THEN /\ metadata_content' = [metadata_content EXCEPT ![p] = objects[event_key[p]]]
              /\ pc' = [pc EXCEPT ![p] = "eval"]
              /\ err' = err
         ELSE /\ Fail(p, "ClientError")
              /\ metadata_content' = metadata_content
    /\ UNCHANGED <<objects, objects0, event_key, raw_key, output_key, pii_fields,
                   raw_csv, delimiter, fieldnames, line, output_stream,
                   puts, storeLog>>

\* line 28
EvalMetadata(p) ==
    /\ pc[p] = "eval"
    /\ LET r == Eval(metadata_content[p])
       IN  IF r.ok
           THEN /\ pii_fields' = [pii_fields EXCEPT ![p] = r]
                /\ pc' = [pc EXCEPT ![p] = "get_raw"]
                /\ err' = err
           ELSE /\ Fail(p, "SyntaxError")
                /\ pii_fields' = pii_fields
    /\ UNCHANGED <<objects, objects0, event_key, raw_key, output_key,
                   metadata_content, raw_csv, delimiter, fieldnames, line,
                   output_stream, gets, puts, storeLog>>

\* lines 32-33
GetRaw(p) ==
    /\ pc[p] = "get_raw"
    /\ gets' = [gets EXCEPT ![p] = @ + 1]
    /\ \E served \in BOOLEAN :
         IF served /\ raw_key[p] \in DOMAIN objects
         THEN /\ raw_csv' = [raw_csv EXCEPT ![p] = objects[raw_key[p]]]
              /\ pc' = [pc EXCEPT ![p] = "sniff"]
              /\ err' = err
         ELSE /\ Fail(p, "ClientError")
              /\ raw_csv' = raw_csv
    /\ UNCHANGED <<objects, objects0, event_key, raw_key, output_key,
                   metadata_content, pii_fields, delimiter, fieldnames, line,
                   output_stream, puts, storeLog>>

\* lines 36-38
Sniff(p) ==
    /\ pc[p] = "sniff"
    /\ IF SniffRaises(raw_csv[p])
       THEN /\ Fail(p, "csv.Error")
            /\ delimiter' = delimiter
       ELSE /\ delimiter' = [delimiter EXCEPT ![p] = raw_csv[p].delim]
            /\ pc' = [pc EXCEPT ![p] = "open"]
            /\ err' = err
    /\ UNCHANGED <<objects, objects0, event_key, raw_key, output_key,
                   metadata_content, pii_fields, raw_csv, fieldnames, line,
                   output_stream, gets, puts, storeLog>>

\* lines 41-46: reader.fieldnames consumes the first row; writeheader writes
\* the row {name: name}
Open(p) ==
    /\ pc[p] = "open"
    /\ LET names == raw_csv[p].lines[1]
           hdr == [n \in {names[i] : i \in 1..Len(names)} |-> n]
       IN  /\ fieldnames' = [fieldnames EXCEPT ![p] = names]
           /\ output_stream' = [output_stream EXCEPT ![p] = <<RowOut(names, hdr)>>]
    /\ line' = [line EXCEPT ![p] = 1]
    /\ pc' = [pc EXCEPT ![p] = "loop"]
    /\ UNCHANGED <<objects, objects0, event_key, raw_key, output_key,
                   metadata_content, pii_fields, raw_csv, delimiter, err,
                   gets, puts, storeLog>>

\* lines 48-52: one iteration of `for row in reader`, or its end
Loop(p) ==
    /\ pc[p] = "loop"
    /\ LET j == NextRow(raw_csv[p].lines, line[p])
       IN  IF j = 0
           THEN /\ line' = [line EXCEPT ![p] = Len(raw_csv[p].lines)]
                /\ pc' = [pc EXCEPT ![p] = "put"]
                /\ UNCHANGED <<output_stream, err>>
           ELSE LET r == DictRow(fieldnames[p], raw_csv[p].lines[j])
                IN  /\ line' = [line EXCEPT ![p] = j]
                    /\ IF ~pii_fields[p].iter
                       THEN /\ Fail(p, "TypeError")
                            /\ output_stream' = output_stream
                       ELSE IF WriteRowRaises(r)
                       THEN /\ Fail(p, "ValueError")
                            /\ output_stream' = output_stream
                       ELSE /\ output_stream' =
                                 [output_stream EXCEPT ![p] =
                                    Append(@, RowOut(fieldnames[p],
                                                     Mask(r.d, pii_fields[p].items)))]
                            /\ UNCHANGED <<pc, err>>
    /\ UNCHANGED <<objects, objects0, event_key, raw_key, output_key,
                   metadata_content, pii_fields, raw_csv, delimiter, fieldnames,
                   gets, puts, storeLog>>

\* an existing object is kept instead of replaced
PutResultKeepsFirst(objs, key, body) ==
    [k \in DOMAIN objs \cup {key} |-> IF k \in DOMAIN objs THEN objs[k] ELSE body]

\* the bucket after put_object(Key=key, Body=body)
PutResult(objs, key, body) ==
    [k \in DOMAIN objs \cup {key} |-> IF k = key THEN body ELSE objs[k]]

\* line 55: s3.put_object replaces the whole object, or raises
PutObject(p) ==
    /\ pc[p] = "put"
    /\ puts' = [puts EXCEPT ![p] = @ + 1]
    /\ \E served \in BOOLEAN :
         IF served
         THEN LET body == [kind |-> "csv", delim |-> delimiter[p],
                           lines |-> output_stream[p]]
              IN  /\ objects' = PutResult(objects, output_key[p], body)
                  /\ storeLog' = Append(storeLog,
                                        [proc |-> p, key |-> output_key[p], body |-> body])
                  /\ pc' = [pc EXCEPT ![p] = "done"]
                  /\ err' = err
         ELSE /\ Fail(p, "ClientError")
              /\ UNCHANGED <<objects, storeLog>>
    /\ UNCHANGED <<objects0, event_key, raw_key, output_key, metadata_content,
                   pii_fields, raw_csv, delimiter, fieldnames, line,
                   output_stream, gets>>

\* The operator copies the first invocation's output over its raw input and
\* uploads the same metadata again, which triggers a second invocation
Feed ==
    /\ pc[1] = "done"
    /\ pc[2] = "idle"
    /\ objects' = [objects EXCEPT ![raw_key[1]] = objects[output_key[1]]]
    /\ event_key' = [event_key EXCEPT ![2] = event_key[1]]
    /\ pc' = [pc EXCEPT ![2] = "resolve"]
    /\ UNCHANGED <<objects0, raw_key, output_key, metadata_content, pii_fields,
                   raw_csv, delimiter, fieldnames, line, output_stream, err,
                   gets, puts, storeLog>>

Handler(p) ==
    \/ Resolve(p)
    \/ GetMetadata(p)
    \/ EvalMetadata(p)
    \/ GetRaw(p)
    \/ Sniff(p)
    \/ Open(p)
    \/ Loop(p)
    \/ PutObject(p)

----------------------------------------------------------------------------
(* Inputs *)

MaxRows == 2

MaxKeyParts == 3

SeqsUpTo(S, n) == UNION {[1..k -> S] : k \in 0..n}

\* column names "id", "email", "ssn"
Id == <<105,100>>

Email == <<101,109,97,105,108>>

Ssn == <<115,115,110>>

\* field values: '' and "hé"
Vals == {<<>>, <<104,233>>}

Headers == {<<Id, Email>>, <<Email, Email>>}

\* rows of every length from blank to one field more than the header
RowsFor(h) == UNION {[1..k -> Vals] : k \in 0..(Len(h) + 1)}

Csv(h, rows) == [kind |-> "csv", delim |-> ",", lines |-> <<h>> \o rows]

CsvFiles == UNION {{Csv(h, rows) : rows \in SeqsUpTo(RowsFor(h), MaxRows)} : h \in Headers}

\* a file whose first line has no usable delimiter, and an empty file
Undetectable == [kind |-> "csv", delim |-> "?", lines |-> <<<<Id>>, <<<<104,233>>>>>>]

Str(v) == [t |-> "str", v |-> v]

List(items) == [kind |-> "meta", form |-> "list", items |-> items]

\* metadata payloads that are literal lists of strings
FieldLists == {List(<<>>), List(<<Str(Email)>>), List(<<Str(Ssn)>>),
               List(<<Str(Ssn), Str(Email)>>), List(<<Str(Email), Str(Email)>>)}

\* the other payloads: a list with an integer, a bare string, an integer,
\* text that is not an expression ("not a list"), an empty document
OtherPayloads == {List(<<[t |-> "int", v |-> 1], Str(Email)>>),
                  [kind |-> "meta", form |-> "str", text |-> Email],
                  [kind |-> "meta", form |-> "int"],
                  [kind |-> "meta", form |-> "garbage"],
                  [kind |-> "meta", form |-> "empty"]}

\* dataset name "d" and directory "m/"
D == <<100>>

Dir == <<109, Slash>>

RECURSIVE Concat(_)
Concat(parts) == IF parts = <<>> THEN <<>> ELSE Head(parts) \o Concat(Tail(parts))

\* metadata keys assembled from the dataset name, the suffix and a directory
MetaKeys == {Concat(parts) : parts \in SeqsUpTo({D, Suffix, Dir}, MaxKeyParts) \ {<<>>}}

KeyPlain == D \o Suffix

KeyDir == Dir \o D \o Suffix

RawD == RawPrefix \o D \o CsvExt

Bucket(k1, meta1, k2, meta2, file) ==
    [k \in {k1, k2, RawD} |->
       IF k = RawD THEN file ELSE IF k = k1 THEN meta1 ELSE meta2]

Start(objs, keys, pcs) ==
    /\ objects = objs
    /\ objects0 = objs
    /\ event_key = keys
    /\ pc = pcs
    /\ raw_key = [p \in Procs |-> <<>>]
    /\ output_key = [p \in Procs |-> <<>>]
    /\ metadata_content = [p \in Procs |-> NoContent]
    /\ pii_fields = [p \in Procs |-> NoFields]
    /\ raw_csv = [p \in Procs |-> NoContent]
    /\ delimiter = [p \in Procs |-> ""]
    /\ fieldnames = [p \in Procs |-> <<>>]
    /\ line = [p \in Procs |-> 0]
    /\ output_stream = [p \in Procs |-> <<>>]
    /\ err = [p \in Procs |-> ""]
    /\ gets = [p \in Procs |-> 0]
    /\ puts = [p \in Procs |-> 0]
    /\ storeLog = <<>>

\* one invocation on every dataset shape; a second one may follow by Feed
Init ==
    \E meta \in FieldLists \cup {[kind |-> "meta", form |-> "garbage"],
                              [kind |-> "meta", form |-> "int"]},
       file \in CsvFiles \cup {Undetectable} :
        Start(Bucket(KeyPlain, meta, KeyPlain, meta, file),
              [p \in Procs |-> IF p = 1 THEN KeyPlain ELSE <<>>],
              [p \in Procs |-> IF p = 1 THEN "resolve" ELSE "idle"])

Next == (\E p \in Procs : Handler(p)) \/ Feed

Spec == Init /\ [][Next]_vars

\* datasets for the orchestration and concurrency specifications
FewFiles == {Csv(<<Id, Email>>, <<>>),
             Csv(<<Id, Email>>, <<<< <<>>, <<104,233>> >>, << <<104,233>> >>>>),
             Csv(<<Id, Email>>, <<<<<<104,233>>, <<104,233>>, <<>>>>>>),
             Undetectable,
             [kind |-> "csv", delim |-> ",", lines |-> <<>>]}

\* one invocation on every metadata key and payload shape
InitOrch ==
    \E k \in MetaKeys, meta \in FieldLists \cup OtherPayloads, file \in FewFiles :
        Start(Bucket(k, meta, k, meta, file),
              [p \in Procs |-> IF p = 1 THEN k ELSE <<>>],
              [p \in Procs |-> IF p = 1 THEN "resolve" ELSE "idle"])

NextOrch == \E p \in Procs : Handler(p)

SpecOrch == InitOrch /\ [][NextOrch]_vars

\* two invocations triggered together
ConcKeys == {KeyPlain, KeyDir, Dir \o Suffix}

InitConc ==
    \E k1 \in ConcKeys, k2 \in ConcKeys,
       meta1 \in {List(<<Str(Email)>>), List(<<>>)},
       meta2 \in {List(<<Str(Id)>>), [kind |-> "meta", form |-> "garbage"]},
       file \in FewFiles :
        Start(Bucket(k1, meta1, k2, meta2, file),
              [p \in Procs |-> IF p = 1 THEN k1 ELSE k2],
              [p \in Procs |-> "resolve"])

NextConc == \E p \in Procs : Handler(p)

SpecConc == InitConc /\ [][NextConc]_vars

----------------------------------------------------------------------------
(* Decoding, and the vocabulary of the properties *)

B64Alphabet == {B64Char(i) : i \in 0..63}

B64Val(c) == CHOOSE i \in 0..63 : B64Char(i) = c

\* well-formed padded base64 text
B64Valid(e) ==
    /\ Len(e) % 4 = 0
    /\ \A i \in 1..Len(e) :
         \/ e[i] \in B64Alphabet
         \/ /\ e[i] = Pad
            /\ i >= Len(e) - 1
            /\ (i = Len(e) - 1 => e[Len(e)] = Pad)

RECURSIVE B64Decode(_)
B64Decode(e) ==
    IF Len(e) < 4 THEN <<>>
    ELSE LET b1 == B64Val(e[1]) * 4 + (B64Val(e[2]) \div 16)
             grp == IF e[3] = Pad THEN <<b1>>
                    ELSE IF e[4] = Pad
                         THEN <<b1, (B64Val(e[2]) % 16) * 16 + (B64Val(e[3]) \div 4)>>
                    ELSE <<b1, (B64Val(e[2]) % 16) * 16 + (B64Val(e[3]) \div 4),
                           (B64Val(e[3]) % 4) * 64 + B64Val(e[4])>>
         IN  grp \o B64Decode(SubSeq(e, 5, Len(e)))

RECURSIVE Utf8Decode(_)
Utf8Decode(b) ==
    IF b = <<>> THEN <<>>
    ELSE IF b[1] < 192 \/ Len(b) < 2
         THEN <<b[1]>> \o Utf8Decode(Tail(b))
    ELSE IF b[1] < 224 \/ Len(b) < 3
         THEN <<(b[1] - 192) * 64 + (b[2] - 128)>> \o Utf8Decode(SubSeq(b, 3, Len(b)))
    ELSE IF b[1] < 240 \/ Len(b) < 4
         THEN <<(b[1] - 224) * 4096 + (b[2] - 128) * 64 + (b[3] - 128)>>
              \o Utf8Decode(SubSeq(b, 4, Len(b)))
    ELSE <<(b[1] - 240) * 262144 + (b[2] - 128) * 4096 + (b[3] - 128) * 64 + (b[4] - 128)>>
         \o Utf8Decode(SubSeq(b, 5, Len(b)))

\* base64.b64decode(e).decode() = v
Recovers(e, v) == B64Valid(e) /\ Utf8Decode(B64Decode(e)) = v

NonBlank(r) == r # <<>>

\* the data rows among lines 2..k: DictReader does not count blank lines as rows
DataRows(lines, k) == SelectSeq(SubSeq(lines, 2, k), NonBlank)

\* the names the metadata lists
FieldSpec(p) ==
    {pii_fields[p].items[j].v :
        j \in {i \in 1..Len(pii_fields[p].items) : pii_fields[p].items[i].t = "str"}}

\* how often the metadata lists a name
Listed(p, n) ==
    Cardinality({j \in 1..Len(pii_fields[p].items) :
                    pii_fields[p].items[j].t = "str" /\ pii_fields[p].items[j].v = n})

RECURSIVE TokenizeTimes(_, _)
TokenizeTimes(v, k) == IF k = 0 \/ v = <<>> THEN v ELSE Tokenize(TokenizeTimes(v, k - 1))

\* the invocation has opened its streams and has not raised since
Streaming(p) == pc[p] \in {"loop", "put", "done"} \/ (pc[p] = "failed" /\ puts[p] = 1)

\* the data rows the reader has handed to the loop body, and those written
RowsRead(p) == DataRows(raw_csv[p].lines, line[p])

Written(p) == Tail(output_stream[p])

\* the value the code writes in column i of a data row: the last field under
\* that column name, empty if the row ends before a column of that name,
\* tokenized once per listing of the name
ExpectedVal(names, items, row, i) ==
    LET same == {j \in 1..Len(names) : names[j] = names[i]}
        last == CHOOSE j \in same : \A m \in same : m <= j
        times == Cardinality({j \in 1..Len(items) :
                                items[j].t = "str" /\ items[j].v = names[i]})
    IN  IF last > Len(row) THEN <<>> ELSE TokenizeTimes(row[last], times)

Expected(p, row, i) == ExpectedVal(fieldnames[p], pii_fields[p].items, row, i)

\* the complete output for a metadata object and a raw dataset
OutputOf(meta, file) ==
    LET names == file.lines[1]
        rows == DataRows(file.lines, Len(file.lines))
    IN  [kind |-> "csv", delim |-> file.delim,
         lines |-> <<names>> \o
                   [k \in 1..Len(rows) |->
                      [i \in 1..Len(names) |->
                         ExpectedVal(names, Eval(meta).items, rows[k], i)]]]

StoresBy(p) == {j \in 1..Len(storeLog) : storeLog[j].proc = p}

----------------------------------------------------------------------------
(* Properties *)

C4_OutputTracksInput ==
    \A p \in Procs :
        output_stream[p] # <<>> =>
            /\ output_stream[p][1] = raw_csv[p].lines[1]
            /\ Len(Written(p)) =
                 IF Streaming(p) THEN Len(RowsRead(p)) ELSE Len(RowsRead(p)) - 1
            /\ \A k \in 1..Len(Written(p)) :
                 /\ Len(Written(p)[k]) = Len(raw_csv[p].lines[1])
                 /\ \A i \in 1..Len(Written(p)[k]) :
                      Written(p)[k][i] = Expected(p, RowsRead(p)[k], i)

\* two different data rows have been written and the loop has not ended
C4_Witness ==
    \E p \in Procs :
        /\ pc[p] = "loop"
        /\ Len(Written(p)) = 2
        /\ Written(p)[1] # Written(p)[2]
        /\ RowsRead(p)[1] # RowsRead(p)[2]

\* C9: when two invocations with the same output key have both completed, the
\* object under that key is the complete output of the one that stored last,
\* and every stored output is determined by the storing invocation's own
\* metadata object and raw dataset
C9_LastWriteWins ==
    /\ \A j \in 1..Len(storeLog) :
         LET q == storeLog[j].proc
         IN  storeLog[j].body = OutputOf(objects0[event_key[q]], objects0[raw_key[q]])
    /\ (pc[1] = "done" /\ pc[2] = "done" /\ output_key[1] = output_key[2]) =>
         /\ Len(storeLog) = 2
         /\ objects[output_key[1]] = storeLog[2].body

\* both completed on the same key with different outputs
C9_Witness ==
    /\ pc[1] = "done" /\ pc[2] = "done"
    /\ output_key[1] = output_key[2]
    /\ storeLog[1].body # storeLog[2].body
    /\ storeLog[1].proc = 2


\* the first and second stored outputs and the original raw dataset of a
\* run that was fed its own output
Orig == objects0[raw_key[1]].lines

Out1 == storeLog[1].body.lines

Out2 == storeLog[2].body.lines

\* C1: for every data row and every header column listed in the metadata, a
\* non-empty input value is written as a text whose base64 decoding is
\* exactly that value
C1_RoundTrip ==
    \A p \in Procs :
        Streaming(p) =>
            \A k \in 1..Len(Written(p)) :
                \A i \in 1..Len(fieldnames[p]) :
                    (/\ i <= Len(RowsRead(p)[k])
                     /\ fieldnames[p][i] \in FieldSpec(p)
                     /\ RowsRead(p)[k][i] # <<>>)
                    => Recovers(Written(p)[k][i], RowsRead(p)[k][i])

\* C2: for every data row, a column that is not listed in the metadata, or
\* whose input value is empty, is written with its input value, and no column
\* is added
C2_PassThrough ==
    \A p \in Procs :
        Streaming(p) =>
            \A k \in 1..Len(Written(p)) :
                /\ Len(Written(p)[k]) = Len(fieldnames[p])
                /\ \A i \in 1..Len(fieldnames[p]) :
                     (/\ i <= Len(RowsRead(p)[k])
                      /\ (fieldnames[p][i] \notin FieldSpec(p) \/ RowsRead(p)[k][i] = <<>>))
                     => Written(p)[k][i] = RowsRead(p)[k][i]

\* C5: a metadata key whose base name is X followed by the suffix resolves to
\* raw/X.csv and tokenized/X_tokenized.csv
C5_NamingConvention ==
    \A p \in Procs :
        (pc[p] \notin {"idle", "resolve"} /\ EndsWith(Basename(event_key[p]), Suffix)) =>
            LET base == Basename(event_key[p])
                X == SubSeq(base, 1, Len(base) - Len(Suffix))
            IN  /\ raw_key[p] = RawPrefix \o X \o CsvExt
                /\ output_key[p] = TokPrefix \o X \o TokSuffix

\* C6: once a data row whose field count differs from the header's has been
\* read, the invocation has failed and has stored nothing
C6_MalformedRowFails ==
    \A p \in Procs :
        output_stream[p] # <<>> =>
            \A k \in 1..Len(RowsRead(p)) :
                Len(RowsRead(p)[k]) # Len(fieldnames[p]) =>
                    pc[p] = "failed" /\ puts[p] = 0

\* the metadata payload is a literal list of quoted strings
IsStringList(content) ==
    /\ content.kind = "meta"
    /\ content.form = "list"
    /\ \A j \in 1..Len(content.items) : content.items[j].t = "str"

\* C7: once a metadata payload that is not a literal list of strings has been
\* parsed, the invocation has failed, without fetching the raw dataset or
\* writing a row
C7_StrictFieldSpec ==
    \A p \in Procs :
        (pc[p] \notin {"idle", "resolve", "get_metadata", "eval"}
         /\ metadata_content[p].kind = "meta"
         /\ ~IsStringList(metadata_content[p])) =>
            /\ pc[p] = "failed"
            /\ gets[p] = 1
            /\ output_stream[p] = <<>>

\* C8: an invocation triggered by a key that does not end with the suffix
\* fails at path resolution, with no fetch and no store
C8_InvalidMetadataPath ==
    \A p \in Procs :
        (pc[p] # "idle" /\ ~EndsWith(event_key[p], Suffix)) =>
            /\ pc[p] \in {"resolve", "failed"}
            /\ gets[p] = 0
            /\ puts[p] = 0

\* C10: after a second run on the first run's output, every listed column
\* with a non-empty original value v holds encode(encode(v)) where the first
\* output holds encode(v), which differs from it and gives v back after two
\* decodings; every other value is the same in both outputs
C10_DoubleEncoding ==
    (pc[1] = "done" /\ pc[2] = "done") =>
        LET rows == DataRows(Orig, Len(Orig))
        IN  \A k \in 1..Len(rows) :
                \A i \in 1..Len(Orig[1]) :
                    i <= Len(rows[k]) =>
                        IF Orig[1][i] \in FieldSpec(1) /\ rows[k][i] # <<>>
                        THEN /\ Out1[k + 1][i] = Tokenize(rows[k][i])
                             /\ Out2[k + 1][i] = Tokenize(Tokenize(rows[k][i]))
                             /\ Out2[k + 1][i] # Out1[k + 1][i]
                             /\ ~Recovers(Out2[k + 1][i], rows[k][i])
                             /\ Recovers(Out2[k + 1][i], Out1[k + 1][i])
                             /\ Recovers(Out1[k + 1][i], rows[k][i])
                        ELSE Out2[k + 1][i] = Out1[k + 1][i]

====
